---------------------------- MODULE Spec2Model ----------------------------
(***************************************************************************)
(* A model of the rfbutton library (src/src/lib.rs): the pulse-stream      *)
(* decoder `decode`, its helper `round_div`, and the hexadecimal serde     *)
(* facet of `Code`.                                                        *)
(*                                                                         *)
(* Durations are u16 and `Code.value` is u32.  TLC's integers are 32-bit   *)
(* signed, so a u32 is modelled as its two 16-bit halves <<hi, lo>>.       *)
(* Arithmetic whose result depends on the build (u16 `+` panics when       *)
(* overflow checks are compiled in and wraps otherwise) is modelled with   *)
(* the build's setting as the variable overflow_checks, drawn in Init.     *)
(***************************************************************************)
EXTENDS Integers, Sequences, FiniteSets, TLC

VARIABLES
    pulses,           \* the argument of decode: a sequence of u16
    overflow_checks,  \* TRUE: the build panics on integer overflow; FALSE: it wraps
    pc,               \* position of the call: "scan", "gate", "estimate", "loop", "done"
    slice,            \* `pulses` after line 95: the intervals after the first break
    short_duration,   \* line 102
    value,            \* line 104: u32, as <<hi, lo>>
    length,           \* line 105: u8
    idx,              \* position of the iterator of line 106 in slice (1-based)
    result,           \* what the call returned (or that it panicked)
    run,              \* which call of the harness this is: "first" or "second"
    prev,             \* the result of the first call, kept for the second
    arg,              \* how the second call's input was derived (scale k, or break and fragment)
    code,             \* serde: the Code handed to serialize
    text,             \* serde: the string handed to deserialize
    ser,              \* serde: what serialize returned
    de                \* serde: what deserialize returned

decodeVars == <<pulses, overflow_checks, pc, slice, short_duration, value, length, idx, result>>
harnessVars == <<run, prev, arg>>
serdeVars == <<code, text, ser, de>>
vars == <<pulses, overflow_checks, pc, slice, short_duration, value, length, idx, result,
          run, prev, arg, code, text, ser, de>>

----------------------------------------------------------------------------
(* Program constants and integer widths *)

BREAK_PULSE_LENGTH == 3000

U16_MAX == 65535

U8_MAX == 255

\* 2^n for the small n used here
RECURSIVE Pow2(_)
Pow2(n) == IF n = 0 THEN 1 ELSE 2 * Pow2(n - 1)

\* a u32 as its halves <<hi, lo>>, each in 0..65535
Zero32 == <<0, 0>>

\* a variant of ShlOr that shifts and never sets the low bit
ShlOrMutNoOr(v, bit) ==
    <<(2 * v[1] + v[2] \div 32768) % 65536, (2 * v[2]) % 65536>>

\* `value << 1 | bit` on a u32: the top bit is shifted out without any check
ShlOr(v, bit) ==
    <<(2 * v[1] + v[2] \div 32768) % 65536, ((2 * v[2]) % 65536) + bit>>

\* `length += 1` on a u8: TRUE when the addition overflows
LengthOverflows(len) == len + 1 > U8_MAX

IncLength(len) == (len + 1) % (U8_MAX + 1)

----------------------------------------------------------------------------
(* Results of a call *)

None == [tag |-> "None", value |-> Zero32, length |-> 0, high |-> 0, low |-> 0]

Ok(v, len) == [tag |-> "Ok", value |-> v, length |-> len, high |-> 0, low |-> 0]

ErrNoStart == [tag |-> "NoStart", value |-> Zero32, length |-> 0, high |-> 0, low |-> 0]

ErrTooShort == [tag |-> "TooShort", value |-> Zero32, length |-> 0, high |-> 0, low |-> 0]

ErrInvalidPulseLength(h, l) ==
    [tag |-> "InvalidPulseLength", value |-> Zero32, length |-> 0, high |-> h, low |-> l]

\* the call did not return: the thread panicked (overflow check, division by zero)
Panic == [tag |-> "Panic", value |-> Zero32, length |-> 0, high |-> 0, low |-> 0]

----------------------------------------------------------------------------
(* decode, lines 88-124 *)

\* a variant of IsBreak that takes the threshold itself for a break
IsBreakMutInclusive(pulse) == pulse >= BREAK_PULSE_LENGTH

\* line 92: the closure of `position`; line 116 applies the same test
IsBreak(pulse) == pulse > BREAK_PULSE_LENGTH

\* lines 90-92: the index (1-based) of the first break, 0 when there is none
Position(p) ==
    IF \E i \in 1..Len(p) : IsBreak(p[i])
    THEN CHOOSE i \in 1..Len(p) : IsBreak(p[i]) /\ \A j \in 1..(i - 1) : ~IsBreak(p[j])
    ELSE 0

\* a variant of TooShort that also refuses exactly four intervals
TooShortMutOffByOne(s) == Len(s) <= 4

\* line 97
TooShort(s) == Len(s) < 4

\* line 102: the true sum of the first four intervals, as `sum::<u16>()` adds them
Sum4(s) == s[1] + s[2] + s[3] + s[4]

\* line 102: `sum::<u16>()` overflows
SumOverflows(s) == Sum4(s) > U16_MAX

\* line 102: the sum as the wrapping build computes it, divided by 8
ShortDuration(s) == (Sum4(s) % (U16_MAX + 1)) \div 8

\* lines 127-129: round_div on u16 panics: division by zero in any build, and
\* overflow of `dividend + divisor / 2` in a build with overflow checks
RoundDivPanics(dividend, divisor, checks) ==
    \/ divisor = 0
    \/ checks /\ dividend + divisor \div 2 > U16_MAX

\* lines 127-129: round_div on u16 when it does not panic
RoundDiv(dividend, divisor) ==
    ((dividend + divisor \div 2) % (U16_MAX + 1)) \div divisor

\* line 107: the iterator yields two more items
HasPair == idx + 1 <= Len(slice)

FindStart ==
    /\ pc = "scan"
    /\ IF Position(pulses) = 0
       THEN /\ result' = ErrNoStart
            /\ pc' = "done"
            /\ slice' = slice
       ELSE /\ slice' = SubSeq(pulses, Position(pulses) + 1, Len(pulses))
            /\ pc' = "gate"
            /\ result' = result
    /\ UNCHANGED <<pulses, overflow_checks, short_duration, value, length, idx>>
    /\ UNCHANGED harnessVars
    /\ UNCHANGED serdeVars

LengthGate ==
    /\ pc = "gate"
    /\ IF TooShort(slice)
       THEN /\ result' = ErrTooShort
            /\ pc' = "done"
       ELSE /\ pc' = "estimate"
            /\ result' = result
    /\ UNCHANGED <<pulses, overflow_checks, slice, short_duration, value, length, idx>>
    /\ UNCHANGED harnessVars
    /\ UNCHANGED serdeVars

Estimate ==
    /\ pc = "estimate"
    /\ IF Len(slice) < 4 \/ (overflow_checks /\ SumOverflows(slice))
       THEN \* `pulses[0..4]` out of range, or the checked sum overflowed
            /\ result' = Panic
            /\ pc' = "done"
            /\ UNCHANGED <<short_duration, value, length, idx>>
       ELSE /\ short_duration' = ShortDuration(slice)
            /\ value' = Zero32
            /\ length' = 0
            /\ idx' = 1
            /\ pc' = "loop"
            /\ result' = result
    /\ UNCHANGED <<pulses, overflow_checks, slice>>
    /\ UNCHANGED harnessVars
    /\ UNCHANGED serdeVars

\* lines 107-121: one iteration of the loop
LoopStep ==
    /\ pc = "loop"
    /\ HasPair
    /\ LET high == slice[idx]
           low == slice[idx + 1]
       IN  IF \/ RoundDivPanics(high, short_duration, overflow_checks)
              \/ RoundDivPanics(low, short_duration, overflow_checks)
           THEN /\ result' = Panic
                /\ pc' = "done"
                /\ UNCHANGED <<value, length, idx>>
           ELSE LET high_period == RoundDiv(high, short_duration)
                    low_period == RoundDiv(low, short_duration)
                    isOne == high_period = 3 /\ low_period = 1
                    isZero == high_period = 1 /\ low_period = 3
                IN  IF isOne \/ isZero
                    THEN IF overflow_checks /\ LengthOverflows(length)
                         THEN /\ result' = Panic
                              /\ pc' = "done"
                              /\ UNCHANGED <<value, length, idx>>
                         ELSE /\ value' = ShlOr(value, IF isOne THEN 1 ELSE 0)
                              /\ length' = IncLength(length)
                              /\ idx' = idx + 2
                              /\ UNCHANGED <<pc, result>>
                    ELSE IF IsBreak(high) \/ IsBreak(low)
                    THEN \* line 117 `break`, then line 123
                         /\ result' = Ok(value, length)
                         /\ pc' = "done"
                         /\ UNCHANGED <<value, length, idx>>
                    ELSE /\ result' = ErrInvalidPulseLength(high, low)
                         /\ pc' = "done"
                         /\ UNCHANGED <<value, length, idx>>
    /\ UNCHANGED <<pulses, overflow_checks, slice, short_duration>>
    /\ UNCHANGED harnessVars
    /\ UNCHANGED serdeVars

\* line 107 fails to match (fewer than two items are left), then line 123
Return ==
    /\ pc = "loop"
    /\ ~HasPair
    /\ result' = Ok(value, length)
    /\ pc' = "done"
    /\ UNCHANGED <<pulses, overflow_checks, slice, short_duration, value, length, idx>>
    /\ UNCHANGED harnessVars
    /\ UNCHANGED serdeVars

Decode == FindStart \/ LengthGate \/ Estimate \/ LoopStep \/ Return

----------------------------------------------------------------------------
(* Inputs *)

\* bounds of the input sets
MaxLen == 5

MaxPairs == 33

MaxPeriod == 2

\* interval values of the short inputs: zero, a unit, a long unit, the break
\* threshold, the smallest break, the largest u16
Durations == {0, 1, 1000, BREAK_PULSE_LENGTH, BREAK_PULSE_LENGTH + 1, U16_MAX}

RECURSIVE SeqsUpTo(_, _)
SeqsUpTo(S, n) ==
    IF n = 0 THEN {<<>>}
    ELSE LET shorter == SeqsUpTo(S, n - 1)
         IN  shorter \cup {Append(s, x) : s \in {t \in shorter : Len(t) = n - 1}, x \in S}

ShortInputs == SeqsUpTo(Durations, MaxLen)

\* one PWM symbol of unit T: (3T, T) is a 1, (T, 3T) is a 0
Symbol(bit, T) == IF bit = 1 THEN <<3 * T, T>> ELSE <<T, 3 * T>>

RECURSIVE Packet(_, _)
Packet(bits, T) ==
    IF bits = <<>> THEN <<>> ELSE Symbol(Head(bits), T) \o Packet(Tail(bits), T)

\* n bits repeating the pattern pat
PeriodicBits(pat, n) == [i \in 1..n |-> pat[((i - 1) % Len(pat)) + 1]]

Patterns == SeqsUpTo({0, 1}, MaxPeriod) \ {<<>>}

Units == {1, 2, 3, 333, 500, 1000}

Prefixes == {<<>>, <<300, BREAK_PULSE_LENGTH>>}

Breaks == {BREAK_PULSE_LENGTH + 1, 10000}

\* a prefix without a break, a break, and n exact symbols of one unit
PacketInputs ==
    {pre \o <<b>> \o Packet(PeriodicBits(pat, n), T) :
        pre \in Prefixes, b \in Breaks, pat \in Patterns, n \in 0..MaxPairs, T \in Units}

Inputs == ShortInputs \cup PacketInputs

----------------------------------------------------------------------------
(* Hexadecimal serde facet of Code, lines 48-84 *)

\* characters are one-character strings
HexChars == <<"0", "1", "2", "3", "4", "5", "6", "7", "8", "9", "a", "b", "c", "d", "e", "f">>

UpperHexChars == <<"A", "B", "C", "D", "E", "F">>

\* char::to_digit(16), as u32::from_str_radix uses it: -1 for a character that is no digit
ToDigit(c) ==
    IF \E i \in 1..16 : HexChars[i] = c THEN (CHOOSE i \in 1..16 : HexChars[i] = c) - 1
    ELSE IF \E i \in 1..6 : UpperHexChars[i] = c
    THEN (CHOOSE i \in 1..6 : UpperHexChars[i] = c) + 9
    ELSE -1

\* 16^n for n in 0..3
Pow16(n) == Pow2(4 * n)

\* the i-th hexadecimal digit of a u32, i = 1 the most significant
NibbleAt(v, i) ==
    IF i <= 4 THEN (v[1] \div Pow16(4 - i)) % 16 ELSE (v[2] \div Pow16(8 - i)) % 16

\* the number of hexadecimal digits `{:x}` prints for a u32: no leading zeros, at least one
HexWidth(v) ==
    IF \A i \in 1..8 : NibbleAt(v, i) = 0 THEN 1
    ELSE 9 - (CHOOSE i \in 1..8 : NibbleAt(v, i) # 0 /\ \A j \in 1..(i - 1) : NibbleAt(v, j) = 0)

\* `{:x}`
LowerHex(v) == [j \in 1..HexWidth(v) |-> HexChars[NibbleAt(v, 8 - HexWidth(v) + j) + 1]]

\* a variant of FormatHex that does not pad
FormatHexMutNoPad(v, width) == LowerHex(v)

\* line 81: format!("{:01$x}", value, width): zero-padded to at least `width` characters
FormatHex(v, width) ==
    IF width > HexWidth(v)
    THEN [j \in 1..(width - HexWidth(v)) |-> "0"] \o LowerHex(v)
    ELSE LowerHex(v)

SerOk(s) == [tag |-> "Ok", s |-> s]

SerErr == [tag |-> "Err", s |-> <<>>]

SerNone == [tag |-> "None", s |-> <<>>]

\* lines 72-83
Serialize(c) ==
    IF c.length % 4 # 0 THEN SerErr
    ELSE SerOk(FormatHex(c.value, c.length \div 4))

DeErrTooLong == [tag |-> "TooLong", value |-> Zero32, length |-> 0, high |-> 0, low |-> 0]

DeErrParse == [tag |-> "ParseInt", value |-> Zero32, length |-> 0, high |-> 0, low |-> 0]

\* the digit loop of u32::from_str_radix(_, 16): acc * 16 + digit with overflow checked;
\* <<>> stands for Err
RECURSIVE ParseDigits(_, _)
ParseDigits(digits, acc) ==
    IF digits = <<>> THEN <<acc>>
    ELSE IF ToDigit(Head(digits)) = -1 THEN <<>>
    ELSE IF NibbleAt(acc, 1) # 0 THEN <<>>
    ELSE ParseDigits(Tail(digits),
                     <<(16 * acc[1] + acc[2] \div 4096) % 65536,
                       ((16 * acc[2]) % 65536) + ToDigit(Head(digits))>>)

\* line 62: u32::from_str_radix(&s, 16): an empty string and a lone sign are errors,
\* one leading "+" is skipped, a "-" is an invalid digit of an unsigned type
FromStrRadix16(s) ==
    IF s = <<>> THEN <<>>
    ELSE IF Len(s) = 1 /\ Head(s) \in {"+", "-"} THEN <<>>
    ELSE IF Head(s) = "+" THEN ParseDigits(Tail(s), Zero32)
    ELSE ParseDigits(s, Zero32)

\* lines 50-67
Deserialize(s) ==
    IF Len(s) > 8 THEN DeErrTooLong
    ELSE IF FromStrRadix16(s) = <<>> THEN DeErrParse
    ELSE Ok(FromStrRadix16(s)[1], (Len(s) * 4) % (U8_MAX + 1))

SerializeCall ==
    /\ pc = "serialize"
    /\ ser' = Serialize(code)
    /\ IF Serialize(code).tag = "Ok"
       THEN /\ text' = Serialize(code).s
            /\ pc' = "deserialize"
       ELSE /\ text' = text
            /\ pc' = "done"
    /\ UNCHANGED <<code, de>>
    /\ UNCHANGED <<pulses, overflow_checks, slice, short_duration, value, length, idx, result>>
    /\ UNCHANGED harnessVars

DeserializeCall ==
    /\ pc = "deserialize"
    /\ de' = Deserialize(text)
    /\ pc' = "done"
    /\ UNCHANGED <<code, text, ser>>
    /\ UNCHANGED <<pulses, overflow_checks, slice, short_duration, value, length, idx, result>>
    /\ UNCHANGED harnessVars

----------------------------------------------------------------------------
(* Specification of single calls of decode *)

NoCode == [value |-> Zero32, length |-> 0]

InitCall(inputs) ==
    /\ pulses \in inputs
    /\ overflow_checks \in BOOLEAN
    /\ pc = "scan"
    /\ slice = <<>>
    /\ short_duration = 0
    /\ value = Zero32
    /\ length = 0
    /\ idx = 1
    /\ result = None
    /\ run = "first"
    /\ prev = None
    /\ arg = <<>>
    /\ code = NoCode
    /\ text = <<>>
    /\ ser = SerNone
    /\ de = None

Init == InitCall(Inputs)

Next == Decode

Spec == Init /\ [][Next]_vars

(* Single calls on inputs whose unit is about 1000, so that a symbol's long
   interval is about the break threshold *)

MaxLongUnitLen == 5

LongUnitInputs ==
    {<<10000>> \o s :
        s \in SeqsUpTo({1000, BREAK_PULSE_LENGTH, BREAK_PULSE_LENGTH + 1}, MaxLongUnitLen)}

InitLongUnit == InitCall(LongUnitInputs)

SpecLongUnit == InitLongUnit /\ [][Next]_vars

----------------------------------------------------------------------------
(* A second call of decode on an input derived from the first call's input *)

\* the second call starts from the state a fresh call starts from
SecondCall(input, how) ==
    /\ pc = "done"
    /\ run = "first"
    /\ result.tag = "Ok"
    /\ pulses' = input
    /\ prev' = result
    /\ arg' = how
    /\ run' = "second"
    /\ pc' = "scan"
    /\ slice' = <<>>
    /\ short_duration' = 0
    /\ value' = Zero32
    /\ length' = 0
    /\ idx' = 1
    /\ result' = None
    /\ UNCHANGED overflow_checks
    /\ UNCHANGED serdeVars

(* Scaling: every interval multiplied by k *)

MaxScale == 10

MaxJitterPairs == 3

Scale(p, k) == [i \in 1..Len(p) |-> k * p[i]]

\* no scaled interval leaves u16 and no interval that is not a break becomes one
ScaleAllowed(p, k) ==
    \A i \in 1..Len(p) :
        /\ k * p[i] <= U16_MAX
        /\ p[i] <= BREAK_PULSE_LENGTH => k * p[i] <= BREAK_PULSE_LENGTH

Rescale ==
    \E k \in 1..MaxScale :
        /\ ScaleAllowed(pulses, k)
        /\ SecondCall(Scale(pulses, k), <<k>>)

\* a symbol of unit T whose two intervals are both off by d
JitterUnits == {<<3, 1>>, <<320, 20>>}

JitterSymbols(u) ==
    {<<Symbol(bit, u[1])[1] + d, Symbol(bit, u[1])[2] + d>> :
        bit \in {0, 1}, d \in {0 - u[2], 0, u[2]}}

RECURSIVE Flatten(_)
Flatten(ss) == IF ss = <<>> THEN <<>> ELSE Head(ss) \o Flatten(Tail(ss))

ScaleInputs ==
    {<<BREAK_PULSE_LENGTH + 1>> \o Flatten(ss) :
        ss \in UNION {SeqsUpTo(JitterSymbols(u), MaxJitterPairs) : u \in JitterUnits}}

InitScale == InitCall(ScaleInputs)

NextScale == Decode \/ Rescale

SpecScale == InitScale /\ [][NextScale]_vars

(* Repeats: the input followed by a break and a leading fragment of the packet *)

MaxRepeatPairs == 3

RepeatBreaks == {BREAK_PULSE_LENGTH + 1, 10000}

Repeat ==
    \E b \in RepeatBreaks, m \in 0..Len(slice) :
        /\ \A i \in 1..Len(slice) : slice[i] <= BREAK_PULSE_LENGTH
        /\ SecondCall(pulses \o <<b>> \o SubSeq(slice, 1, m), <<b, m>>)

\* packets of exact symbols, with or without an unpaired trailing mark
RepeatInputs ==
    {pre \o <<b>> \o Packet(bits, T) \o (IF trailing THEN <<T>> ELSE <<>>) :
        pre \in Prefixes, b \in Breaks, T \in Units,
        bits \in SeqsUpTo({0, 1}, MaxRepeatPairs), trailing \in BOOLEAN}

InitRepeat == InitCall(RepeatInputs)

NextRepeat == Decode \/ Repeat

SpecRepeat == InitRepeat /\ [][NextRepeat]_vars

----------------------------------------------------------------------------
(* Specification of the serde facet *)

MaxCodeLength == 36

MaxTextLen == 9

\* a u32 from its eight hexadecimal digits
FromNibbles(ds) ==
    <<4096 * ds[1] + 256 * ds[2] + 16 * ds[3] + ds[4],
      4096 * ds[5] + 256 * ds[6] + 16 * ds[7] + ds[8]>>

\* w digits f, and a 1 followed by w - 1 zeros, for every width w; the values of the tests
CodeValues ==
    {FromNibbles([i \in 1..8 |-> IF i > 8 - w THEN 15 ELSE 0]) : w \in 0..8}
    \cup {FromNibbles([i \in 1..8 |-> IF i = 9 - w THEN 1 ELSE 0]) : w \in 1..8}
    \cup {FromNibbles(<<0, 0, 1, 2, 3, 4, 5, 6>>), FromNibbles(<<0, 0, 10, 11, 12, 13, 14, 15>>),
          FromNibbles(<<15, 15, 1, 1, 2, 2, 3, 3>>), FromNibbles(<<0, 0, 0, 0, 0, 1, 2, 3>>)}

Codes == [value : CodeValues, length : 0..MaxCodeLength]

TextChars == {"0", "1", "a", "f", "F", "g", "+", "-"}

\* every string of up to three of the characters, and longer ones of one repeated
\* character with or without a leading sign
Texts ==
    SeqsUpTo(TextChars, 3)
    \cup {sign \o [i \in 1..n |-> c] :
            sign \in {<<>>, <<"+">>, <<"-">>}, n \in 0..MaxTextLen, c \in TextChars}

InitSerde ==
    /\ \/ /\ run = "roundtrip"
          /\ code \in Codes
          /\ text = <<>>
          /\ pc = "serialize"
       \/ /\ run = "parse"
          /\ code = NoCode
          /\ text \in Texts
          /\ pc = "deserialize"
    /\ ser = SerNone
    /\ de = None
    /\ pulses = <<>>
    /\ overflow_checks = FALSE
    /\ slice = <<>>
    /\ short_duration = 0
    /\ value = Zero32
    /\ length = 0
    /\ idx = 1
    /\ result = None
    /\ prev = None
    /\ arg = <<>>

NextSerde == SerializeCall \/ DeserializeCall

SpecSerde == InitSerde /\ [][NextSerde]_vars

----------------------------------------------------------------------------
(* Properties *)

\* the input read as the claims read it: is there an interval over 3000, and
\* which intervals follow the first one
HasBreak(p) == \E i \in 1..Len(p) : p[i] > 3000

AfterBreak(p) ==
    LET first == CHOOSE i \in 1..Len(p) : p[i] > 3000 /\ \A j \in 1..(i - 1) : p[j] <= 3000
    IN  SubSeq(p, first + 1, Len(p))

Min(a, b) == IF a <= b THEN a ELSE b

\* s is n symbols (2 <= n <= 32), each exactly (3T, T) or (T, 3T), for one T in 1..1000
IsExactPacket(s) ==
    /\ Len(s) % 2 = 0
    /\ Len(s) \div 2 \in 2..32
    /\ LET T == Min(s[1], s[2])
       IN  /\ T \in 1..1000
           /\ \A i \in 1..(Len(s) \div 2) :
                \/ s[2 * i - 1] = 3 * T /\ s[2 * i] = T
                \/ s[2 * i - 1] = T /\ s[2 * i] = 3 * T

\* the bits of an exact packet in input order: a pair whose mark is the longer one is a 1
PacketBits(s) == [i \in 1..(Len(s) \div 2) |-> IF s[2 * i - 1] > s[2 * i] THEN 1 ELSE 0]

\* bit j (1 the most significant of 32) of the u32 whose lowest Len(bits) bits
\* are `bits`, first bit most significant
BitAt(bits, j) == IF j <= 32 - Len(bits) THEN 0 ELSE bits[j - (32 - Len(bits))]

\* the number whose 16 binary digits are bits j+1 .. j+16
RECURSIVE HalfValue(_, _, _)
HalfValue(bits, j, n) ==
    IF n = 0 THEN 0 ELSE 2 * HalfValue(bits, j, n - 1) + BitAt(bits, j + n)

BitsValue(bits) == <<HalfValue(bits, 0, 16), HalfValue(bits, 16, 16)>>

\* the lowest `len` bits of the u32 v hold all of v
FitsIn(v, len) ==
    IF len >= 32 THEN TRUE
    ELSE IF len >= 16 THEN v[1] < Pow2(len - 16)
    ELSE v[1] = 0 /\ v[2] < Pow2(len)

\* C1: a break followed by exactly n exact symbols (2 <= n <= 32) of one unit T
\* (1 <= T <= 1000) decodes to Ok with length n and the n bits MSB first.
C1_ExactPacketDecodes ==
    (pc = "done" /\ HasBreak(pulses) /\ IsExactPacket(AfterBreak(pulses)))
        => result = Ok(BitsValue(PacketBits(AfterBreak(pulses))), Len(AfterBreak(pulses)) \div 2)

C1_Witness ==
    /\ pc = "done"
    /\ HasBreak(pulses)
    /\ IsExactPacket(AfterBreak(pulses))
    /\ Len(AfterBreak(pulses)) = 64
    /\ AfterBreak(pulses)[1] = 3000
    /\ AfterBreak(pulses)[3] = 1000
    /\ result.tag = "Ok"
    /\ result.length = 32
    /\ result.value = <<43690, 43690>>

\* C2: decode returns Err(NoStart) exactly when no interval is over 3000, which
\* covers the empty input and an input whose largest interval is 3000.
C2_NoStartIffNoBreak ==
    pc = "done" => (result = ErrNoStart <=> ~HasBreak(pulses))

C2_Witness ==
    /\ pc = "done"
    /\ result = ErrNoStart
    /\ Len(pulses) = 3
    /\ \E i \in 1..Len(pulses) : pulses[i] = 3000

\* C3: with a break in the input, decode returns Err(TooShort) exactly when fewer
\* than 4 intervals follow the first break, whatever they are.
C3_TooShortIffUnderFour ==
    (pc = "done" /\ HasBreak(pulses))
        => (result = ErrTooShort <=> Len(AfterBreak(pulses)) < 4)

C3_Witness ==
    /\ pc = "done"
    /\ result = ErrTooShort
    /\ Len(AfterBreak(pulses)) = 3
    /\ HasBreak(AfterBreak(pulses))

\* C4: when the loop reaches a pair with high > 3000 or low > 3000, the call
\* returns Ok with exactly the bits of the earlier pairs: the pair adds no bit
\* and raises no error.
C4_BreakPairEndsCleanly ==
    [][(pc = "loop" /\ HasPair /\ (slice[idx] > 3000 \/ slice[idx + 1] > 3000))
          => (pc' = "done" /\ result' = Ok(value, length))]_vars

\* C5: every Code decode returns has length <= 32 and no bit of value set above
\* its lowest `length` bits.
C5_CodeWithinWidth ==
    (pc = "done" /\ result.tag = "Ok")
        => /\ result.length <= 32
           /\ FitsIn(result.value, result.length)

\* C6: past the length gate the unit is floor((p0 + p1 + p2 + p3) / 8) on the true
\* sum of the first four intervals after the break; the sum neither overflows
\* nor wraps.
C6_UnitFromTrueSum ==
    [][pc = "estimate"
          => (pc' = "loop"
              /\ short_duration' = (slice[1] + slice[2] + slice[3] + slice[4]) \div 8)]_vars

\* C7: if decode(P) = Ok(c), then decoding P with every interval multiplied by k
\* (1 <= k <= 10, nothing leaving u16, no interval of at most 3000 passing 3000)
\* returns Ok(c) too.
C7_ScaleInvariance ==
    (pc = "done" /\ run = "second") => result = prev

\* C8: if decode(P) = Ok(c) and the intervals S after P's break are all at most
\* 3000, then decoding P, a break b, and a leading fragment of S returns Ok(c).
C8_RepeatIdempotence ==
    (pc = "done" /\ run = "second") => (result.tag = "Ok" /\ result = prev)

SerdeLengths == {4, 8, 12, 16, 20, 24, 28, 32}

\* C9 as stated: for every Code with length in {4, 8, ..., 32}, serialize succeeds
\* and deserializing its output gives the Code back, value and length.
C9_RoundTripAnyValue ==
    (run = "roundtrip" /\ pc = "done" /\ code.length \in SerdeLengths)
        => /\ ser.tag = "Ok"
           /\ de = Ok(code.value, code.length)

\* C9 amended: for every Code with length in {4, 8, ..., 32} whose value has no bit
\* set above its lowest `length` bits, serialize succeeds and deserializing its
\* output gives the Code back, value and length.
C9_RoundTripFittingValue ==
    (run = "roundtrip" /\ pc = "done" /\ code.length \in SerdeLengths
        /\ FitsIn(code.value, code.length))
        => /\ ser.tag = "Ok"
           /\ de = Ok(code.value, code.length)

C9_Witness ==
    /\ run = "roundtrip"
    /\ pc = "done"
    /\ code.length = 12
    /\ code.value = Zero32
    /\ ser = SerOk(<<"0", "0", "0">>)
    /\ de = Ok(Zero32, 12)

IsHexDigit(c) ==
    c \in {"0", "1", "2", "3", "4", "5", "6", "7", "8", "9",
           "a", "b", "c", "d", "e", "f", "A", "B", "C", "D", "E", "F"}

\* C10: deserialize succeeds exactly on strings of 1 to 8 characters that are all
\* hexadecimal digits, with length = 4 x the number of characters; every other
\* string (empty, longer, or holding a character that is no digit, such as a
\* sign) is rejected.
C10_DeserializeAcceptsHexOnly ==
    (run = "parse" /\ pc = "done")
        => /\ de.tag = "Ok" <=> (Len(text) \in 1..8 /\ \A i \in 1..Len(text) : IsHexDigit(text[i]))
           /\ de.tag = "Ok" => de.length = 4 * Len(text)

\* C11: when the first four intervals after the break sum to less than 8, so that
\* the unit is 0, the call still returns: Err(InvalidPulseLength(high, low)) with
\* the first pair's raw values, or Ok with no bits if that pair holds a break; it
\* never aborts on a division by zero.
C11_ZeroUnitReturnsError ==
    [][(pc = "loop" /\ idx = 1 /\ HasPair
            /\ slice[1] + slice[2] + slice[3] + slice[4] < 8)
          => /\ pc' = "done"
             /\ IF slice[1] > 3000 \/ slice[2] > 3000
                THEN result' = Ok(Zero32, 0)
                ELSE result' = ErrInvalidPulseLength(slice[1], slice[2])]_vars

\* C12: for every pair the loop reaches and every unit T >= 1, round_div gives
\* floor((x + floor(T / 2)) / T) in exact integer arithmetic for x = high and
\* x = low; x + T / 2 neither overflows nor wraps at 16 bits.
C12_RoundDivExact ==
    (pc = "loop" /\ HasPair /\ short_duration >= 1)
        => \A x \in {slice[idx], slice[idx + 1]} :
              /\ ~RoundDivPanics(x, short_duration, overflow_checks)
              /\ RoundDiv(x, short_duration) = (x + short_duration \div 2) \div short_duration

=============================================================================
